---- MODULE Spec2Model ----
(***************************************************************************)
(* Mention Monitor: the mention aggregation, merge-persistence and         *)
(* enrichment pipeline of src/mention_monitor.py, src/llm_analysis.py,     *)
(* src/scraper_modules.py and src/streamlit_app.py.                        *)
(*                                                                         *)
(* Times are whole hours.  Relevance scores are tenths (5 is 0.5).         *)
(***************************************************************************)
EXTENDS Integers, Sequences, FiniteSets, TLC

VARIABLES
    file,         \* data/mentions.json: [st, recs]
    now,          \* datetime.now(), in hours
    pc,           \* position of perform_search / search_mentions
    term,         \* search_term of the running perform_search
    idx,          \* index into self.scrapers of the for loop of search_mentions
    started,      \* scrapers whose search() has been called in this run
    completed,    \* scrapers whose search() has returned or raised in this run
    results,      \* what each scraper handed back in this run (<<>> if it raised)
    failed,       \* scrapers whose search() raised in this run
    all_mentions, \* local all_mentions of search_mentions
    mentions,     \* final_mentions, then the list perform_search holds
    outcome,      \* how search_mentions ended: "none", "returned", "raised"
    saveErr,      \* the last save_mentions logged "Error saving mentions"
    loadErr,      \* a load_mentions of the last operation logged "Error loading mentions"
    returned,     \* the mentions as search_mentions returned them (before enrichment)
    enriched,     \* analyze_mentions updated at least one mention in this run
    ei,           \* index of the for loop of analyze_mentions
    stats,        \* result of app.get_stats
    recent,       \* result of app.get_recent_mentions
    shadowed,     \* the last save_mentions call on the storage read and wrote the
                  \* file and carried a stored URL under another title
    analyzed,     \* local analyzed_mentions of analyze_mentions
    analysis,     \* the AnalysisResult of the mention analysed last
    calls,        \* what the four client.generate calls of that analysis
                  \* handed back: <<sentiment, relevance, topics, summary>>
    wpc,          \* position of each concurrent caller of save_mentions
    wbatch,       \* the batch each of them was handed
    wloaded,      \* existing_mentions of each of them
    interleaved,  \* one of them loaded while another was between its load
                  \* and its write
    dropped       \* the URLs that were stored before the last save_mentions
                  \* call on the storage and are not stored after it

vars == <<file, now, pc, term, idx, started, completed, results, failed,
          all_mentions, mentions, outcome, saveErr, loadErr, returned, enriched,
          ei, stats, recent, shadowed, analyzed, analysis, calls,
          wpc, wbatch, wloaded, interleaved, dropped>>

pipeVars == <<pc, term, idx, started, completed, results, failed,
              all_mentions, mentions, outcome, returned, enriched, ei, stats, recent>>

histVars == <<shadowed, dropped>>

enrVars == <<analyzed, analysis, calls>>

conVars == <<wpc, wbatch, wloaded, interleaved>>

(***************************************************************************)
(* Bounds and input sets                                                   *)
(***************************************************************************)
MaxNow == 12         \* the clock stops advancing here (hours)
MaxResults == 1      \* results one scraper returns for one query
MaxBatch == 2        \* length of a batch handed directly to save_mentions
StepHours == 12      \* one tick of the clock
MaxStored == 3       \* records of a store handed to the statistics
StatsNow == 204      \* the hour at which the statistics of such a store are
                     \* computed: day 8, 12:00

URLs == {"u1", "linkedin.com/u2"}
\* the titles scraper i gives its results
TitlesOf(i) == IF i = 1 THEN {"T1"} ELSE {"T2"}
Snippets == {"s"}
Terms == {"Acme", "Beta"}

\* str.lower() on the search terms in use
Lower(s) ==
    CASE s = "Acme" -> "acme"
      [] s = "ACME" -> "acme"
      [] s = "Beta" -> "beta"
      [] OTHER -> s

RECURSIVE SeqsUpTo(_, _)
SeqsUpTo(S, n) ==
    IF n = 0 THEN {<<>>}
    ELSE LET shorter == SeqsUpTo(S, n - 1)
         IN shorter \cup {Append(s, x) : s \in {t \in shorter : Len(t) = n - 1}, x \in S}

Range(s) == {s[i] : i \in 1..Len(s)}

Map(F(_), s) == [i \in 1..Len(s) |-> F(s[i])]

(***************************************************************************)
(* Mention (the dataclass) and its stored form                             *)
(***************************************************************************)
\* datetime.isoformat() and datetime.fromisoformat(): a datetime becomes a
\* string and back; the string is kept apart from the datetime by its shape
IsoFormat(t) == [iso |-> t]
FromIsoFormat(s) == s.iso

DefaultRelevance == 5
DefaultSentiment == "neutral"

\* BaseScraper._create_mention.  attrs holds the names of the attributes set
\* on the object that are no fields of the dataclass
CreateMention(source, title, url, snippet, search_term, t) ==
    [source |-> source, title |-> title, url |-> url, snippet |-> snippet,
     date_found |-> t, search_term |-> search_term,
     relevance_score |-> DefaultRelevance, sentiment |-> DefaultSentiment,
     attrs |-> {}]

\* Mention.to_dict: asdict() of the dataclass fields, date_found as an ISO string
to_dict(m) ==
    [source |-> m.source, title |-> m.title, url |-> m.url, snippet |-> m.snippet,
     date_found |-> IsoFormat(m.date_found), search_term |-> m.search_term,
     relevance_score |-> m.relevance_score, sentiment |-> m.sentiment]

(***************************************************************************)
(* MentionStorage                                                          *)
(***************************************************************************)
AbsentFile == [st |-> "absent", recs |-> <<>>]

\* whether load_mentions takes its except branch: json.load raises on a
\* truncated file, open/read raises on an I/O error (rd = "error")
LoadFails(f, rd) == f.st = "corrupt" \/ (f.st = "valid" /\ rd = "error")

\* MentionStorage.load_mentions
load_mentions(f, rd) ==
    IF f.st = "absent" \/ LoadFails(f, rd) THEN <<>> ELSE f.recs

\* An entry of the loaded list is a JSON object, or it is not: the entry
\* [nonobject |-> x] stands for a string, a number or null among the records.
IsObject(r) == "nonobject" \notin DOMAIN r

\* whether the entry is an object that has the key
Has(r, key) == IsObject(r) /\ key \in DOMAIN r

\* save_mentions, line 62: m['url'] raises KeyError on a record without
\* 'url' and TypeError on an entry that is no object
MergeRaises(existing) ==
    \E i \in 1..Len(existing) : ~Has(existing[i], "url")

\* a merge that forgets the URL filter
MergeAllAppend(existing, batch) == existing \o Map(to_dict, batch)

\* a merge in which the batch overwrites the stored record of its URL
MergeLastWins(existing, batch) ==
    LET existing_urls == {existing[i].url : i \in 1..Len(existing)}
        new_mentions == SelectSeq(batch, LAMBDA m : m.url \notin existing_urls)
        hit(r) == {i \in 1..Len(batch) : batch[i].url = r.url}
        over(r) == IF hit(r) = {} THEN r
                   ELSE to_dict(batch[CHOOSE i \in hit(r) : \A j \in hit(r) : j <= i])
    IN Map(over, existing) \o Map(to_dict, new_mentions)

\* a merge that looks for the URL among the stored records of the batch
\* item's own search term only
MergePerTerm(existing, batch) ==
    LET known(m) == \E i \in 1..Len(existing) :
                        /\ existing[i].url = m.url
                        /\ Lower(existing[i].search_term) = Lower(m.search_term)
        new_mentions == SelectSeq(batch, LAMBDA m : ~known(m))
    IN existing \o Map(to_dict, new_mentions)

\* save_mentions, lines 62-65: the list handed to json.dump
merge_mentions(existing, batch) ==
    LET existing_urls == {existing[i].url : i \in 1..Len(existing)}
        new_mentions == SelectSeq(batch, LAMBDA m : m.url \notin existing_urls)
    IN existing \o Map(to_dict, new_mentions)

ReadOutcomes == {"ok", "error"}
WriteOutcomes == {"ok", "open_fails", "dump_fails"}

\* save_mentions, lines 67-68: open(path, 'w') truncates the file, json.dump
\* then writes it.  wr is "ok", "open_fails" (open raised, nothing touched)
\* or "dump_fails" (the write raised or the process stopped after the
\* truncation: what is left does not parse, and holds no whole collection)
write_file(f, all, wr) ==
    CASE wr = "ok" -> [st |-> "valid", recs |-> all]
      [] wr = "open_fails" -> f
      [] OTHER -> [st |-> "corrupt", recs |-> <<>>]

\* a save that gives up, leaving the file, when its load failed
SaveUnlessLoadFails(f, batch, rd, wr) ==
    IF LoadFails(f, rd)
    THEN f
    ELSE write_file(f, merge_mentions(f.recs, batch), wr)

\* MentionStorage.save_mentions: the file it leaves; an exception raised
\* before the open leaves the file as it was
save_mentions(f, batch, rd, wr) ==
    IF MergeRaises(load_mentions(f, rd))
    THEN f
    ELSE write_file(f, merge_mentions(load_mentions(f, rd), batch), wr)

\* whether save_mentions takes its except branch, lines 72-73
SaveFails(f, rd, wr) == MergeRaises(load_mentions(f, rd)) \/ wr # "ok"

\* get_mentions_for_term, line 89: m.get raises AttributeError on an entry
\* that is no object
GetRaises(f, rd) ==
    \E i \in 1..Len(load_mentions(f, rd)) : ~IsObject(load_mentions(f, rd)[i])

\* MentionStorage.get_mentions_for_term
get_mentions_for_term(f, rd, search_term) ==
    SelectSeq(load_mentions(f, rd),
              LAMBDA m : Lower(m.search_term) = Lower(search_term))

(***************************************************************************)
(* MentionAnalytics and the read side of MentionMonitorApp                 *)
(***************************************************************************)
\* strftime('%Y-%m-%d'): the calendar day of a time
DayOf(t) == t \div 24

Count(s, P(_)) == Cardinality({i \in 1..Len(s) : P(s[i])})

RECURSIVE SumRelevance(_)
SumRelevance(s) ==
    IF s = <<>> THEN 0 ELSE Head(s).relevance_score + SumRelevance(Tail(s))

WindowDays == 7

\* statistics whose breakdowns and average are taken over the mentions of
\* the last 7 days only
CalculateStatsWindowed(f, rd, search_term, t) ==
    LET ms == get_mentions_for_term(f, rd, search_term)
        date(m) == FromIsoFormat(m.date_found)
        seven_days_ago == t - WindowDays * 24
        recent_mentions == SelectSeq(ms, LAMBDA m : date(m) >= seven_days_ago)
        days == {DayOf(t - i * 24) : i \in 0..(WindowDays - 1)}
    IN IF ms = <<>>
       THEN [total_mentions |-> 0, mentions_last_7_days |-> 0,
             mentions_by_day |-> <<>>, sources_breakdown |-> <<>>,
             sentiment_breakdown |-> <<>>, avg_relevance_score |-> <<0, 1>>]
       ELSE [total_mentions |-> Len(ms),
             mentions_last_7_days |-> Len(recent_mentions),
             mentions_by_day |->
                 [d \in days |-> Count(recent_mentions, LAMBDA m : DayOf(date(m)) = d)],
             sources_breakdown |->
                 [src \in {recent_mentions[i].source : i \in 1..Len(recent_mentions)} |->
                     Count(recent_mentions, LAMBDA m : m.source = src)],
             sentiment_breakdown |->
                 [sn \in {recent_mentions[i].sentiment : i \in 1..Len(recent_mentions)} |->
                     Count(recent_mentions, LAMBDA m : m.sentiment = sn)],
             avg_relevance_score |->
                 IF recent_mentions = <<>> THEN <<0, 1>>
                 ELSE <<SumRelevance(recent_mentions), Len(recent_mentions)>>]

\* statistics whose last-7-days count is the count of the 7 calendar days
CalculateStatsCalendarWindow(f, rd, search_term, t) ==
    LET ms == get_mentions_for_term(f, rd, search_term)
        date(m) == FromIsoFormat(m.date_found)
        days == {DayOf(t - i * 24) : i \in 0..(WindowDays - 1)}
        recent_mentions == SelectSeq(ms, LAMBDA m : DayOf(date(m)) \in days)
    IN IF ms = <<>>
       THEN [total_mentions |-> 0, mentions_last_7_days |-> 0,
             mentions_by_day |-> <<>>, sources_breakdown |-> <<>>,
             sentiment_breakdown |-> <<>>, avg_relevance_score |-> <<0, 1>>]
       ELSE [total_mentions |-> Len(ms),
             mentions_last_7_days |-> Len(recent_mentions),
             mentions_by_day |->
                 [d \in days |-> Count(recent_mentions, LAMBDA m : DayOf(date(m)) = d)],
             sources_breakdown |->
                 [src \in {ms[i].source : i \in 1..Len(ms)} |->
                     Count(ms, LAMBDA m : m.source = src)],
             sentiment_breakdown |->
                 [sn \in {ms[i].sentiment : i \in 1..Len(ms)} |->
                     Count(ms, LAMBDA m : m.sentiment = sn)],
             avg_relevance_score |-> <<SumRelevance(ms), Len(ms)>>]

\* statistics without the guards for an empty list of mentions
CalculateStatsUnguarded(f, rd, search_term, t) ==
    LET ms == get_mentions_for_term(f, rd, search_term)
        date(m) == FromIsoFormat(m.date_found)
        seven_days_ago == t - WindowDays * 24
        recent_mentions == SelectSeq(ms, LAMBDA m : date(m) >= seven_days_ago)
        days == {DayOf(t - i * 24) : i \in 0..(WindowDays - 1)}
    IN [total_mentions |-> Len(ms),
        mentions_last_7_days |-> Len(recent_mentions),
        mentions_by_day |->
            [d \in days |-> Count(recent_mentions, LAMBDA m : DayOf(date(m)) = d)],
        sources_breakdown |->
            [src \in {ms[i].source : i \in 1..Len(ms)} |->
                Count(ms, LAMBDA m : m.source = src)],
        sentiment_breakdown |->
            [sn \in {ms[i].sentiment : i \in 1..Len(ms)} |->
                Count(ms, LAMBDA m : m.sentiment = sn)],
        avg_relevance_score |-> <<SumRelevance(ms), Len(ms)>>]

\* MentionAnalytics.calculate_stats.  avg_relevance_score is the fraction
\* <<sum of the scores, number of scores>>; 0.0 is <<0, 1>>
calculate_stats(f, rd, search_term, t) ==
    LET ms == get_mentions_for_term(f, rd, search_term)
        date(m) == FromIsoFormat(m.date_found)
        seven_days_ago == t - WindowDays * 24
        recent_mentions == SelectSeq(ms, LAMBDA m : date(m) >= seven_days_ago)
        days == {DayOf(t - i * 24) : i \in 0..(WindowDays - 1)}
    IN IF ms = <<>>
       THEN [total_mentions |-> 0, mentions_last_7_days |-> 0,
             mentions_by_day |-> <<>>, sources_breakdown |-> <<>>,
             sentiment_breakdown |-> <<>>, avg_relevance_score |-> <<0, 1>>]
       ELSE [total_mentions |-> Len(ms),
             mentions_last_7_days |-> Len(recent_mentions),
             mentions_by_day |->
                 [d \in days |-> Count(recent_mentions, LAMBDA m : DayOf(date(m)) = d)],
             sources_breakdown |->
                 [src \in {ms[i].source : i \in 1..Len(ms)} |->
                     Count(ms, LAMBDA m : m.source = src)],
             sentiment_breakdown |->
                 [sn \in {ms[i].sentiment : i \in 1..Len(ms)} |->
                     Count(ms, LAMBDA m : m.sentiment = sn)],
             avg_relevance_score |-> <<SumRelevance(ms), Len(ms)>>]

\* list.sort(key=date_found, reverse=True): stable, latest first
RECURSIVE SortByDateDesc(_)
SortByDateDesc(s) ==
    IF s = <<>> THEN <<>>
    ELSE LET x == Head(s)
             rest == SortByDateDesc(Tail(s))
             k == Cardinality({i \in 1..Len(rest) :
                                 rest[i].date_found.iso > x.date_found.iso})
         IN SubSeq(rest, 1, k) \o <<x>> \o SubSeq(rest, k + 1, Len(rest))

RecentLimit == 50

\* calculate_stats, line 113, and get_recent_mentions, line 201:
\* mention['date_found'] raises KeyError on a record of the term without it
DateRaises(f, rd, search_term) ==
    \/ GetRaises(f, rd)
    \/ \E m \in Range(get_mentions_for_term(f, rd, search_term)) :
          ~Has(m, "date_found")

\* MentionMonitorApp.get_recent_mentions
get_recent_mentions(f, rd, search_term, limit) ==
    LET sorted == SortByDateDesc(get_mentions_for_term(f, rd, search_term))
    IN SubSeq(sorted, 1, IF Len(sorted) < limit THEN Len(sorted) ELSE limit)

(***************************************************************************)
(* Scrapers and the in-memory merge of search_mentions                     *)
(***************************************************************************)
\* create_scrapers with a Travily key and neither BeautifulSoup nor Selenium
\* installed: the registered scrapers, by the source tag they give
Scrapers == <<"DuckDuckGo", "Travily">>

NumScrapers == Len(Scrapers)

\* what one scraper's search() can return at time t: title and url are never
\* empty (the parsers' "if title and url")
ScraperOutputs(i, search_term, t) ==
    SeqsUpTo({CreateMention(Scrapers[i], ti, u, sn, search_term, t) :
                 ti \in TitlesOf(i), u \in URLs, sn \in Snippets}, MaxResults)

\* a merge that forgets to key by URL
DedupNone(ms) == ms

\* a merge by URL that keeps the mention seen first
DedupFirstWins(ms) ==
    LET firsts == {i \in 1..Len(ms) : \A j \in 1..(i - 1) : ms[j].url # ms[i].url}
        order == SelectSeq([i \in 1..Len(ms) |-> i], LAMBDA i : i \in firsts)
    IN [k \in 1..Len(order) |-> ms[order[k]]]

\* search_mentions, lines 180-184: a dict keyed by url keeps the position of a
\* key's first insertion and the value of its last
in_memory_dedup(ms) ==
    LET firsts == {i \in 1..Len(ms) : \A j \in 1..(i - 1) : ms[j].url # ms[i].url}
        order == SelectSeq([i \in 1..Len(ms) |-> i], LAMBDA i : i \in firsts)
        last(u) == CHOOSE i \in 1..Len(ms) :
                      ms[i].url = u /\ \A j \in (i + 1)..Len(ms) : ms[j].url # u
    IN [k \in 1..Len(order) |-> ms[last(ms[order[k]].url)]]

(***************************************************************************)
(* CohereAnalyzer and MentionEnricher                                      *)
(***************************************************************************)
\* What client.generate hands back.  For the sentiment prompt: the call
\* raises, or the text parses as JSON (an object or not; 'sentiment' a string
\* or "absent"; 'confidence' a number, "absent", or "bad" for what float()
\* refuses), or it does not parse and holds the given polarity words.  For the
\* relevance prompt: the call raises, or the text is a finite number (in
\* tenths), or "nan", or it is no number.  For the topics prompt: the call
\* raises or the text holds the given comma-separated items.  For the summary
\* prompt: the call raises or the text is given.
\* the responses one mention's analysis gets in the application:
\* <<sentiment call, relevance call, topics call, summary call>>
AnalysisResponses ==
    {<<[kind |-> "raise"], [kind |-> "raise"], [kind |-> "raise"],
       [kind |-> "raise"]>>,
     <<[kind |-> "json", shape |-> "object", sentiment |-> "positive",
        conf |-> "number", confidence |-> 9],
       [kind |-> "number", value |-> 17],
       [kind |-> "text", items |-> <<"ai", " ml">>],
       [kind |-> "text", text |-> "sum "]>>,
     <<[kind |-> "text", words |-> {"negative"}], [kind |-> "text"],
       [kind |-> "raise"], [kind |-> "text", text |-> "sum "]>>}

\* CohereAnalyzer._get_sentiment
get_sentiment(resp) ==
    CASE resp.kind = "raise" -> [sentiment |-> "neutral", confidence |-> 0]
      [] resp.kind = "json" ->
            IF resp.shape # "object" \/ resp.conf = "bad"
            THEN [sentiment |-> "neutral", confidence |-> 0]
            ELSE [sentiment |-> IF resp.sentiment = "absent"
                                THEN "neutral" ELSE resp.sentiment,
                  confidence |-> IF resp.conf = "absent"
                                 THEN 5 ELSE resp.confidence]
      [] OTHER ->
            [sentiment |-> IF "positive" \in resp.words THEN "positive"
                           ELSE IF "negative" \in resp.words THEN "negative"
                           ELSE "neutral",
             confidence |-> 5]

Min(a, b) == IF a < b THEN a ELSE b
Max(a, b) == IF a > b THEN a ELSE b

\* a relevance parser that hands on the number as it is
CalculateRelevanceUnclamped(resp) ==
    CASE resp.kind = "number" -> resp.value
      [] resp.kind = "nan" -> 10
      [] OTHER -> DefaultRelevance

\* CohereAnalyzer._calculate_relevance; max(0.0, min(1.0, nan)) is 1.0
calculate_relevance(resp) ==
    CASE resp.kind = "number" -> Max(0, Min(10, resp.value))
      [] resp.kind = "nan" -> 10
      [] OTHER -> DefaultRelevance

\* str.strip() on the texts in use
Strip(s) ==
    CASE s = " ml" -> "ml"
      [] s = "sum " -> "sum"
      [] OTHER -> s

MaxTopics == 5

\* CohereAnalyzer._extract_topics
extract_topics(resp) ==
    IF resp.kind = "raise"
    THEN <<>>
    ELSE [i \in 1..Min(Len(resp.items), MaxTopics) |-> Strip(resp.items[i])]

\* CohereAnalyzer._generate_summary
generate_summary(resp) ==
    IF resp.kind = "raise" THEN "" ELSE Strip(resp.text)

\* CohereAnalyzer._analyze_single_mention: the AnalysisResult
analyze_single_mention(sr, rr, tr, ur) ==
    [sentiment |-> get_sentiment(sr).sentiment,
     sentiment_confidence |-> get_sentiment(sr).confidence,
     relevance_score |-> calculate_relevance(rr),
     key_topics |-> extract_topics(tr),
     summary |-> generate_summary(ur)]

NoAnalysis == [sentiment |-> "neutral", sentiment_confidence |-> 0,
               relevance_score |-> 0,
               key_topics |-> <<>>, summary |-> ""]

NoCalls == <<>>

\* analyze_mentions, lines 63-67: the mention after its analysis
analyze_update(m, sr, rr) ==
    [m EXCEPT !.sentiment = get_sentiment(sr).sentiment,
              !.relevance_score = calculate_relevance(rr)]

IsLinkedIn(u) == u \in {"linkedin.com/u2"}

LinkedInAttrs ==
    {"linkedin_likes", "linkedin_comments", "linkedin_shares", "linkedin_views"}

\* MentionEnricher._add_linkedin_metrics
add_linkedin_metrics(ms) ==
    [i \in 1..Len(ms) |->
        IF IsLinkedIn(ms[i].url)
        THEN [ms[i] EXCEPT !.attrs = @ \cup LinkedInAttrs]
        ELSE ms[i]]

(***************************************************************************)
(* State machine                                                           *)
(***************************************************************************)
\* the callers that can be inside save_mentions at the same time: two
\* sessions of the page, each running its script in a thread of its own
Writers == {1, 2}

\* no caller is inside save_mentions
NoWriters ==
    /\ wpc = [w \in Writers |-> "idle"]
    /\ wbatch = [w \in Writers |-> <<>>]
    /\ wloaded = [w \in Writers |-> <<>>]
    /\ interleaved = FALSE

NoStats ==
    [total_mentions |-> 0, mentions_last_7_days |-> 0, mentions_by_day |-> <<>>,
     sources_breakdown |-> <<>>, sentiment_breakdown |-> <<>>,
     avg_relevance_score |-> <<0, 1>>]

\* MentionMonitorApp.__init__ on a machine with no data/mentions.json yet
Init ==
    /\ file = AbsentFile
    /\ now = 0
    /\ pc = "idle"
    /\ term = "Acme"
    /\ idx = 1
    /\ started = {}
    /\ completed = {}
    /\ results = <<>>
    /\ failed = {}
    /\ all_mentions = <<>>
    /\ mentions = <<>>
    /\ outcome = "none"
    /\ saveErr = FALSE
    /\ loadErr = FALSE
    /\ returned = <<>>
    /\ enriched = FALSE
    /\ ei = 1
    /\ stats = NoStats
    /\ recent = <<>>
    /\ shadowed = FALSE
    /\ dropped = {}
    /\ analyzed = <<>>
    /\ analysis = NoAnalysis
    /\ calls = NoCalls
    /\ NoWriters

\* time passes between two runs of perform_search
Tick ==
    /\ pc = "idle"
    /\ now + StepHours <= MaxNow
    /\ now' = now + StepHours
    /\ UNCHANGED <<file, pipeVars, saveErr, loadErr, histVars, conVars, enrVars>>

\* perform_search calls app.search_mentions(search_term)
StartSearch(t) ==
    /\ pc = "idle"
    /\ pc' = "loop"
    /\ term' = t
    /\ idx' = 1
    /\ started' = {}
    /\ completed' = {}
    /\ results' = <<>>
    /\ failed' = {}
    /\ all_mentions' = <<>>
    /\ mentions' = <<>>
    /\ returned' = <<>>
    /\ outcome' = "none"
    /\ enriched' = FALSE
    /\ saveErr' = FALSE
    /\ loadErr' = FALSE
    /\ UNCHANGED <<file, now, ei, stats, recent, histVars, conVars, enrVars>>

\* search_mentions, line 172: scraper.search(search_term) is called and awaited
CallScraper ==
    /\ pc = "loop"
    /\ idx <= NumScrapers
    /\ started' = started \cup {idx}
    /\ pc' = "await"
    /\ UNCHANGED <<file, now, term, idx, completed, results, failed, all_mentions,
                   mentions, outcome, saveErr, loadErr, returned, enriched, ei,
                   stats, recent, histVars, conVars, enrVars>>

\* search_mentions, lines 172-174: the awaited search() returns ms
ScraperReturns(ms) ==
    /\ pc = "await"
    /\ all_mentions' = all_mentions \o ms
    /\ results' = Append(results, ms)
    /\ completed' = completed \cup {idx}
    /\ idx' = idx + 1
    /\ pc' = "loop"
    /\ UNCHANGED <<file, now, term, started, failed, mentions, outcome, saveErr,
                   loadErr, returned, enriched, ei, stats, recent, histVars, conVars, enrVars>>

\* a raise that ends the loop over the scrapers instead of going on with the
\* next one
ScraperRaisesBreaks ==
    /\ pc = "await"
    /\ results' = Append(results, <<>>)
    /\ failed' = failed \cup {idx}
    /\ completed' = completed \cup {idx}
    /\ idx' = NumScrapers + 1
    /\ pc' = "loop"
    /\ UNCHANGED <<file, now, term, started, all_mentions, mentions, outcome,
                   saveErr, loadErr, returned, enriched, ei, stats, recent, histVars, conVars, enrVars>>

\* search_mentions, lines 175-177: the awaited search() raises
ScraperRaises ==
    /\ pc = "await"
    /\ results' = Append(results, <<>>)
    /\ failed' = failed \cup {idx}
    /\ completed' = completed \cup {idx}
    /\ idx' = idx + 1
    /\ pc' = "loop"
    /\ UNCHANGED <<file, now, term, started, all_mentions, mentions, outcome,
                   saveErr, loadErr, returned, enriched, ei, stats, recent, histVars, conVars, enrVars>>

\* search_mentions, line 172: the awaited search() never returns; nothing
\* bounds the await
ScraperHangs ==
    /\ pc = "await"
    /\ pc' = "hung"
    /\ UNCHANGED <<file, now, term, idx, started, completed, results, failed,
                   all_mentions, mentions, outcome, saveErr, loadErr, returned,
                   enriched, ei, stats, recent, histVars, conVars, enrVars>>

\* search_mentions, lines 179-190: the merge by URL, the save of a non-empty
\* result (whose exceptions save_mentions logs and swallows), the return
FinishSearch(rd, wr) ==
    /\ pc = "loop"
    /\ idx > NumScrapers
    /\ LET final_mentions == in_memory_dedup(all_mentions)
       IN /\ mentions' = final_mentions
          /\ returned' = final_mentions
          /\ IF final_mentions # <<>>
             THEN /\ file' = save_mentions(file, final_mentions, rd, wr)
                  /\ loadErr' = LoadFails(file, rd)
                  /\ saveErr' = SaveFails(file, rd, wr)
             ELSE /\ rd = "ok"
                  /\ wr = "ok"
                  /\ UNCHANGED <<file, loadErr, saveErr>>
    /\ outcome' = "returned"
    /\ pc' = "searched"
    /\ UNCHANGED <<now, term, idx, started, completed, results, failed,
                   all_mentions, enriched, ei, stats, recent, histVars, conVars, enrVars>>

\* search_mentions has returned: its locals are gone
SearchLocalsGone ==
    /\ idx' = 1
    /\ started' = {}
    /\ completed' = {}
    /\ results' = <<>>
    /\ failed' = {}
    /\ all_mentions' = <<>>

\* perform_search, line 157 false, or enrich_mentions / analyze_mentions
\* returning at once (no mentions, no client)
SkipEnrich ==
    /\ pc = "searched"
    /\ pc' = "enriched"
    /\ SearchLocalsGone
    /\ UNCHANGED <<file, now, term, mentions, outcome, saveErr, loadErr, returned,
                   enriched, ei, stats, recent, histVars, conVars, enrVars>>

\* perform_search, line 158: enricher.enrich_mentions(mentions, search_term)
\* reaches the loop of analyze_mentions
StartEnrich ==
    /\ pc = "searched"
    /\ mentions # <<>>
    /\ ei' = 1
    /\ analyzed' = <<>>
    /\ pc' = "enrich"
    /\ SearchLocalsGone
    /\ UNCHANGED <<file, now, term, mentions, outcome, saveErr, loadErr, returned,
                   enriched, stats, recent, histVars, conVars, analysis, calls>>

\* an analysis loop that leaves out of its result a mention whose sentiment
\* call failed
EnrichStepDropsFailed(sr, rr, tr, ur) ==
    /\ pc = "enrich"
    /\ ei <= Len(mentions)
    /\ mentions' = [mentions EXCEPT ![ei] = analyze_update(@, sr, rr)]
    /\ analyzed' = IF sr.kind = "raise" THEN analyzed
                   ELSE Append(analyzed, mentions'[ei])
    /\ analysis' = analyze_single_mention(sr, rr, tr, ur)
    /\ calls' = <<sr, rr, tr, ur>>
    /\ enriched' = TRUE
    /\ ei' = ei + 1
    /\ UNCHANGED <<file, now, pc, term, idx, started, completed, results, failed,
                   all_mentions, outcome, saveErr, loadErr, returned, stats,
                   recent, histVars, conVars>>

\* analyze_mentions, lines 61-72: one mention analysed, updated in place and
\* appended to analyzed_mentions
EnrichStep(sr, rr, tr, ur) ==
    /\ pc = "enrich"
    /\ ei <= Len(mentions)
    /\ mentions' = [mentions EXCEPT ![ei] = analyze_update(@, sr, rr)]
    /\ analyzed' = Append(analyzed, mentions'[ei])
    /\ analysis' = analyze_single_mention(sr, rr, tr, ur)
    /\ calls' = <<sr, rr, tr, ur>>
    /\ enriched' = TRUE
    /\ ei' = ei + 1
    /\ UNCHANGED <<file, now, pc, term, idx, started, completed, results, failed,
                   all_mentions, outcome, saveErr, loadErr, returned, stats,
                   recent, histVars, conVars>>

\* analyze_mentions returns analyzed_mentions, enrich_mentions lines 248-250;
\* perform_search, line 158, holds the list returned
FinishEnrich ==
    /\ pc = "enrich"
    /\ ei > Len(mentions)
    /\ mentions' = add_linkedin_metrics(analyzed)
    /\ analyzed' = <<>>
    /\ pc' = "enriched"
    /\ UNCHANGED <<file, now, term, idx, started, completed, results, failed,
                   all_mentions, outcome, saveErr, loadErr, returned, enriched,
                   ei, stats, recent, histVars, conVars, analysis, calls>>

\* perform_search, lines 164-165: app.get_stats and app.get_recent_mentions,
\* each reading the file; an exception of either ends perform_search in its
\* except branch, lines 172-174, with no statistics
GetStats(rd1, rd2) ==
    /\ pc = "enriched"
    /\ IF DateRaises(file, rd1, term) \/ DateRaises(file, rd2, term)
       THEN /\ stats' = NoStats
            /\ recent' = <<>>
            /\ pc' = "failed"
       ELSE /\ stats' = calculate_stats(file, rd1, term, now)
            /\ recent' = get_recent_mentions(file, rd2, term, RecentLimit)
            /\ pc' = "done"
    /\ loadErr' = (loadErr \/ LoadFails(file, rd1) \/ LoadFails(file, rd2))
    /\ UNCHANGED <<file, now, term, idx, started, completed, results, failed,
                   all_mentions, mentions, outcome, saveErr, returned, enriched,
                   ei, histVars, conVars, enrVars>>

\* perform_search returns; the page is ready for the next search
Return ==
    /\ pc \in {"done", "failed"}
    /\ pc' = "idle"
    /\ idx' = 1
    /\ started' = {}
    /\ completed' = {}
    /\ results' = <<>>
    /\ failed' = {}
    /\ all_mentions' = <<>>
    /\ mentions' = <<>>
    /\ returned' = <<>>
    /\ outcome' = "none"
    /\ enriched' = FALSE
    /\ ei' = 1
    /\ stats' = NoStats
    /\ recent' = <<>>
    /\ saveErr' = FALSE
    /\ loadErr' = FALSE
    /\ analyzed' = <<>>
    /\ analysis' = NoAnalysis
    /\ calls' = NoCalls
    /\ UNCHANGED <<file, now, term, histVars, conVars>>

Next ==
    \/ Tick
    \/ \E t \in Terms : StartSearch(t)
    \/ CallScraper
    \/ \E ms \in (IF pc = "await" THEN ScraperOutputs(idx, term, now) ELSE {}) :
          ScraperReturns(ms)
    \/ ScraperRaises
    \/ ScraperHangs
    \/ \E rd \in ReadOutcomes, wr \in WriteOutcomes : FinishSearch(rd, wr)
    \/ SkipEnrich
    \/ StartEnrich
    \/ \E r \in AnalysisResponses : EnrichStep(r[1], r[2], r[3], r[4])
    \/ FinishEnrich
    \/ \E rd1 \in ReadOutcomes, rd2 \in ReadOutcomes : GetStats(rd1, rd2)
    \/ Return

\* the application: searches, enrichment and statistics, one run at a time
Spec == Init /\ [][Next]_vars

(***************************************************************************)
(* MentionStorage called directly, with any batch                          *)
(***************************************************************************)
\* mentions a caller can hand to save_mentions: as a scraper made them, or
\* made elsewhere and already analysed
SampleMention(v, u) ==
    IF v = 1
    THEN CreateMention("DuckDuckGo", "T1", u, "s", "Acme", 0)
    ELSE [CreateMention("Travily", "T2", u, "s", "Beta", 12)
             EXCEPT !.sentiment = "positive", !.relevance_score = 9]

Batches == SeqsUpTo({SampleMention(v, u) : v \in {1, 2}, u \in URLs}, MaxBatch)

\* storage.save_mentions(batch), with the outcome of its read and of its write
SaveBatch(batch, rd, wr) ==
    /\ pc = "idle"
    /\ file' = save_mentions(file, batch, rd, wr)
    /\ loadErr' = LoadFails(file, rd)
    /\ saveErr' = SaveFails(file, rd, wr)
    /\ shadowed' = (/\ ~SaveFails(file, rd, wr)
                    /\ ~LoadFails(file, rd)
                    /\ \E i \in 1..Len(batch), j \in 1..Len(file.recs) :
                          /\ batch[i].url = file.recs[j].url
                          /\ batch[i].title # file.recs[j].title)
    /\ dropped' = {file.recs[i].url :
                       i \in {j \in 1..Len(file.recs) : Has(file.recs[j], "url")}}
                   \ {file'.recs[i].url :
                        i \in {j \in 1..Len(file'.recs) : Has(file'.recs[j], "url")}}
    /\ UNCHANGED <<now, pipeVars, enrVars, conVars>>

StorageNext ==
    \E batch \in Batches, rd \in ReadOutcomes, wr \in WriteOutcomes :
        SaveBatch(batch, rd, wr)

\* the storage alone, under any sequence of save_mentions calls
StorageSpec == Init /\ [][StorageNext]_vars

\* the application under the scheduling of the event loop: a step that can be
\* taken is taken
LiveSpec == Spec /\ WF_vars(Next)

(***************************************************************************)
(* MentionAnalytics on any store                                           *)
(***************************************************************************)
\* date_found of the stored records, seen from t: now, 6 days ago, the
\* midnight that began that day, exactly 7 days ago, an hour before that,
\* 8 days ago
StoredDates(t) ==
    {t, t - 6 * 24, DayOf(t - 6 * 24) * 24, t - 7 * 24, t - 7 * 24 - 1, t - 8 * 24}

\* the URL of the i-th record of a store: save_mentions keeps them distinct
StoredURL(i) ==
    CASE i = 1 -> "u1"
      [] i = 2 -> "linkedin.com/u2"
      [] i = 3 -> "u3"
      [] OTHER -> "u4"

\* a stored record: as a scraper's mention was saved, under another spelling
\* of the term and analysed, or of another term
StoredSample(v, d) ==
    CASE v = 1 -> to_dict(CreateMention("DuckDuckGo", "T1", "u", "s", "Acme", d))
      [] v = 2 -> to_dict([CreateMention("Travily", "T2", "u", "s", "ACME", d)
                             EXCEPT !.sentiment = "positive",
                                    !.relevance_score = 9])
      [] OTHER -> to_dict(CreateMention("DuckDuckGo", "T1", "u", "s", "Beta", d))

\* the stores save_mentions can have written by time t
Stores(t) ==
    {[st |-> "valid",
      recs |-> [i \in 1..Len(rs) |-> [rs[i] EXCEPT !.url = StoredURL(i)]]] :
        rs \in SeqsUpTo({StoredSample(1, d) : d \in StoredDates(t)}
                            \cup {StoredSample(2, t), StoredSample(2, t - 7 * 24),
                                  StoredSample(3, t)},
                        MaxStored)}
        \cup {AbsentFile}

\* perform_search is about to read the statistics of a term
StatsInit ==
    /\ file \in Stores(StatsNow)
    /\ now = StatsNow
    /\ pc = "enriched"
    /\ term \in Terms
    /\ idx = 1
    /\ started = {}
    /\ completed = {}
    /\ results = <<>>
    /\ failed = {}
    /\ all_mentions = <<>>
    /\ mentions = <<>>
    /\ returned = <<>>
    /\ outcome = "none"
    /\ saveErr = FALSE
    /\ loadErr = FALSE
    /\ enriched = FALSE
    /\ ei = 1
    /\ stats = NoStats
    /\ recent = <<>>
    /\ shadowed = FALSE
    /\ dropped = {}
    /\ analyzed = <<>>
    /\ analysis = NoAnalysis
    /\ calls = NoCalls
    /\ NoWriters

StatsNext ==
    \/ \E rd1 \in ReadOutcomes, rd2 \in ReadOutcomes : GetStats(rd1, rd2)
    \/ Return

\* the statistics alone: get_stats and get_recent_mentions of either term on
\* any store
StatsSpec == StatsInit /\ [][StatsNext]_vars

(***************************************************************************)
(* A store with one malformed entry among valid records                    *)
(***************************************************************************)
\* the record without one of its keys
Without(r, key) == [k \in DOMAIN r \ {key} |-> r[k]]

\* entries json.load hands back that no save_mentions wrote: a record
\* without 'url', a record without 'date_found', an entry that is no object
MalformedEntries(t) ==
    {Without(StoredSample(1, t), "url"),
     Without(StoredSample(1, t), "date_found"),
     [nonobject |-> "junk"]}

\* the stores that hold exactly one malformed entry, at any position
MalformedStores(t) ==
    LET entries == {StoredSample(1, t), StoredSample(3, t)} \cup MalformedEntries(t)
        bad(rs) == {i \in 1..Len(rs) : rs[i] \in MalformedEntries(t)}
    IN {[st |-> "valid",
         recs |-> [i \in 1..Len(rs) |->
                      IF Has(rs[i], "url")
                      THEN [rs[i] EXCEPT !.url = StoredURL(i)] ELSE rs[i]]] :
           rs \in {x \in SeqsUpTo(entries, MaxStored) : Cardinality(bad(x)) = 1}}

\* perform_search is about to read the statistics of a term from such a store
MalformedInit ==
    /\ file \in MalformedStores(StatsNow)
    /\ now = StatsNow
    /\ pc = "enriched"
    /\ term \in Terms
    /\ idx = 1
    /\ started = {}
    /\ completed = {}
    /\ results = <<>>
    /\ failed = {}
    /\ all_mentions = <<>>
    /\ mentions = <<>>
    /\ returned = <<>>
    /\ outcome = "none"
    /\ saveErr = FALSE
    /\ loadErr = FALSE
    /\ enriched = FALSE
    /\ ei = 1
    /\ stats = NoStats
    /\ recent = <<>>
    /\ shadowed = FALSE
    /\ dropped = {}
    /\ analyzed = <<>>
    /\ analysis = NoAnalysis
    /\ calls = NoCalls
    /\ NoWriters

\* the reads and the saves on such a store, with no I/O fault
MalformedNext ==
    \/ GetStats("ok", "ok")
    \/ Return
    \/ \E batch \in Batches : SaveBatch(batch, "ok", "ok")

MalformedSpec == MalformedInit /\ [][MalformedNext]_vars

(***************************************************************************)
(* MentionEnricher called directly, with any list and any responses        *)
(***************************************************************************)
\* the lists a caller can hand to enrich_mentions: mentions as a scraper made
\* them, and mentions that already carry a sentiment and a relevance
EnrichInputs ==
    SeqsUpTo({SampleMention(1, "u1"), SampleMention(2, "linkedin.com/u2")},
             MaxBatch)

\* responses to the sentiment prompt
SentimentResponses ==
    {[kind |-> "raise"],
     [kind |-> "json", shape |-> "object", sentiment |-> "positive",
      conf |-> "number", confidence |-> 9],
     [kind |-> "json", shape |-> "object", sentiment |-> "mixed",
      conf |-> "absent", confidence |-> 0],
     [kind |-> "json", shape |-> "object", sentiment |-> "absent",
      conf |-> "bad", confidence |-> 0],
     [kind |-> "json", shape |-> "string", sentiment |-> "absent",
      conf |-> "absent", confidence |-> 0],
     [kind |-> "text", words |-> {}],
     [kind |-> "text", words |-> {"positive"}],
     [kind |-> "text", words |-> {"negative"}],
     [kind |-> "text", words |-> {"positive", "negative"}]}

\* responses to the relevance prompt
RelevanceResponses ==
    {[kind |-> "raise"], [kind |-> "text"], [kind |-> "nan"],
     [kind |-> "number", value |-> 0 - 3], [kind |-> "number", value |-> 4],
     [kind |-> "number", value |-> 17]}

\* responses to the topics prompt and to the summary prompt
TopicsSummaryResponses ==
    {<<[kind |-> "raise"], [kind |-> "raise"]>>,
     <<[kind |-> "text", items |-> <<"ai", " ml", "c", "d", "e", "f">>],
       [kind |-> "text", text |-> "sum "]>>}

EnricherResponses ==
    {<<sr, rr, ts[1], ts[2]>> : sr \in SentimentResponses,
                                rr \in RelevanceResponses,
                                ts \in TopicsSummaryResponses}

\* a caller holds a list of mentions and is about to call enrich_mentions
EnrichInit ==
    /\ file = AbsentFile
    /\ now = 0
    /\ pc = "searched"
    /\ term = "Acme"
    /\ idx = 1
    /\ started = {}
    /\ completed = {}
    /\ results = <<>>
    /\ failed = {}
    /\ all_mentions = <<>>
    /\ mentions \in EnrichInputs
    /\ returned = mentions
    /\ outcome = "none"
    /\ saveErr = FALSE
    /\ loadErr = FALSE
    /\ enriched = FALSE
    /\ ei = 1
    /\ stats = NoStats
    /\ recent = <<>>
    /\ shadowed = FALSE
    /\ dropped = {}
    /\ analyzed = <<>>
    /\ analysis = NoAnalysis
    /\ calls = NoCalls
    /\ NoWriters

EnrichNext ==
    \/ SkipEnrich
    \/ StartEnrich
    \/ \E r \in EnricherResponses : EnrichStep(r[1], r[2], r[3], r[4])
    \/ FinishEnrich

\* the enricher alone: one enrich_mentions call on any list, under any
\* responses of the language model
EnrichSpec == EnrichInit /\ [][EnrichNext]_vars

(***************************************************************************)
(* Searches whose scrapers hand back URLs as the pages give them           *)
(***************************************************************************)
\* one address, without and with a trailing blank: href attributes and the
\* 'url' of an API result are taken as they are (scraper_modules.py:127, 198)
RawURLs == {"u1", "u1 "}

\* str.rstrip() on the URLs in use
RStrip(u) == IF u = "u1 " THEN "u1" ELSE u

\* what one scraper's search() can return when the pages give such URLs
RawScraperOutputs(i, search_term, t) ==
    SeqsUpTo({CreateMention(Scrapers[i], ti, u, sn, search_term, t) :
                 ti \in TitlesOf(i), u \in RawURLs, sn \in Snippets}, MaxResults)

RawUrlNext ==
    \/ \E t \in Terms : StartSearch(t)
    \/ CallScraper
    \/ \E ms \in (IF pc = "await" THEN RawScraperOutputs(idx, term, now) ELSE {}) :
          ScraperReturns(ms)
    \/ \E rd \in ReadOutcomes, wr \in WriteOutcomes : FinishSearch(rd, wr)
    \/ SkipEnrich
    \/ \E rd1 \in ReadOutcomes, rd2 \in ReadOutcomes : GetStats(rd1, rd2)
    \/ Return

\* the application without enrichment, on pages whose URLs may end in a blank
RawUrlSpec == Init /\ [][RawUrlNext]_vars

(***************************************************************************)
(* Two callers of save_mentions on one file                                *)
(***************************************************************************)
\* save_mentions(batch) is entered by caller w
WriterCall(w, batch) ==
    /\ pc = "idle"
    /\ wpc[w] = "idle"
    /\ wpc' = [wpc EXCEPT ![w] = "called"]
    /\ wbatch' = [wbatch EXCEPT ![w] = batch]
    /\ UNCHANGED <<file, now, pipeVars, saveErr, loadErr, histVars, enrVars,
                   wloaded, interleaved>>

\* save_mentions, line 59: existing_mentions = self.load_mentions()
WriterLoad(w) ==
    /\ wpc[w] = "called"
    /\ wloaded' = [wloaded EXCEPT ![w] = load_mentions(file, "ok")]
    /\ wpc' = [wpc EXCEPT ![w] = "loaded"]
    /\ interleaved' = (interleaved \/ \E o \in Writers \ {w} : wpc[o] = "loaded")
    /\ UNCHANGED <<file, now, pipeVars, saveErr, loadErr, histVars, enrVars,
                   wbatch>>

\* a write that reads the file again under a lock before merging
WriterWriteLocked(w) ==
    /\ wpc[w] = "loaded"
    /\ file' = write_file(file,
                          merge_mentions(load_mentions(file, "ok"), wbatch[w]),
                          "ok")
    /\ wpc' = [wpc EXCEPT ![w] = "done"]
    /\ UNCHANGED <<now, pipeVars, saveErr, loadErr, histVars, enrVars, wbatch,
                   wloaded, interleaved>>

\* save_mentions, lines 62-68: the merge with what this caller loaded, and
\* the write of the whole list
WriterWrite(w) ==
    /\ wpc[w] = "loaded"
    /\ file' = write_file(file, merge_mentions(wloaded[w], wbatch[w]), "ok")
    /\ wpc' = [wpc EXCEPT ![w] = "done"]
    /\ UNCHANGED <<now, pipeVars, saveErr, loadErr, histVars, enrVars, wbatch,
                   wloaded, interleaved>>

WriterNext ==
    \/ \E w \in Writers, batch \in Batches : WriterCall(w, batch)
    \/ \E w \in Writers : WriterLoad(w)
    \/ \E w \in Writers : WriterWrite(w)

\* two save_mentions calls on one file, their steps in any order, with no
\* I/O fault
WriterSpec == Init /\ [][WriterNext]_vars

(***************************************************************************)
(* Properties                                                              *)
(***************************************************************************)
StoredURLs == {file.recs[i].url : i \in 1..Len(file.recs)}

IsPrefix(s, t) == Len(s) <= Len(t) /\ \A i \in 1..Len(s) : s[i] = t[i]

\* C1: after any sequence of save_mentions calls from an empty store, with any
\* batches, no two stored records of one search_term share a URL.
DedupInvariant ==
    \A i \in 1..Len(file.recs), j \in 1..Len(file.recs) :
        (i # j /\ file.recs[i].search_term = file.recs[j].search_term)
            => file.recs[i].url # file.recs[j].url

\* C2: for the file as it is in any reachable state and for any batch, two
\* save_mentions calls in a row with that batch leave the same file (records,
\* order, field values) as one call.
IdempotentMerge ==
    \A batch \in Batches :
        save_mentions(save_mentions(file, batch, "ok", "ok"), batch, "ok", "ok")
            = save_mentions(file, batch, "ok", "ok")

\* a store filled by earlier calls, and a batch that a first call merges into
\* it: a URL the store has, and a new URL twice
IdempotentMergeWitness ==
    /\ file.st = "valid"
    /\ Len(file.recs) >= 2
    /\ \E batch \in Batches :
          /\ Len(batch) >= 2
          /\ batch[1].url \in StoredURLs
          /\ batch[2].url \notin StoredURLs
          /\ save_mentions(file, batch, "ok", "ok") # file

\* C3: a save_mentions call that reads and writes the file keeps every stored
\* record, with its field values and at its position, whatever the batch
\* carries for a stored URL: the file only grows at its end.
FirstSeenWins ==
    [][(~loadErr' /\ ~saveErr') => IsPrefix(file.recs, file'.recs)]_vars

FirstSeenWinsWitness ==
    /\ shadowed
    /\ file.st = "valid"
    /\ Len(file.recs) >= 2

\* C4: when the load or the write of save_mentions fails, the enclosing
\* search_mentions call ends with an error.
StorageFailurePropagates ==
    (pc = "searched" /\ (saveErr \/ loadErr)) => outcome = "raised"

\* C5: a save_mentions call that fails leaves the previous valid collection in
\* the file, whole.
CrashSafeWrite == [][(file.st = "valid" /\ saveErr') => file' = file]_vars

\* C6: whichever scrapers raise, search_mentions calls every scraper, returns
\* without raising exactly one mention per URL that the scrapers that did not
\* raise returned, each of them one of theirs, and a save that read and wrote
\* the file has every returned URL stored.
AdapterFailureIsolation ==
    pc = "searched" =>
        /\ outcome = "returned"
        /\ completed = 1..NumScrapers
        /\ \A i \in failed : results[i] = <<>>
        /\ {mentions[k].url : k \in 1..Len(mentions)} =
               UNION {{results[i][k].url : k \in 1..Len(results[i])} :
                         i \in (1..NumScrapers) \ failed}
        /\ \A k \in 1..Len(mentions) :
               \E i \in (1..NumScrapers) \ failed : mentions[k] \in Range(results[i])
        /\ \A k, l \in 1..Len(mentions) : k # l => mentions[k].url # mentions[l].url
        /\ (~saveErr /\ ~loadErr) =>
               \A k \in 1..Len(mentions) : mentions[k].url \in StoredURLs

AdapterFailureIsolationWitness ==
    /\ pc = "searched"
    /\ failed = {1}
    /\ mentions # <<>>
    /\ ~saveErr
    /\ ~loadErr
    /\ file.st = "valid"

\* C7: every scraper's search() has been started before any scraper's search()
\* has had to complete.
ConcurrentFanOut ==
    (pc \in {"loop", "await", "hung"} /\ completed # {})
        => started = 1..NumScrapers

\* C8: when a scraper's search() never returns, search_mentions still completes.
BoundedAdapterCalls == (pc = "hung") ~> (pc = "searched")

\* C9: the file never holds two records of one URL; search_mentions returns
\* one mention per URL, also when two scrapers return the URL under different
\* titles; and after a save that read and wrote the file, in a first run or
\* in a re-run, the file holds exactly one record of each returned URL.
EndToEndDedup ==
    /\ \A u \in URLs : Count(file.recs, LAMBDA r : r.url = u) <= 1
    /\ pc = "searched" =>
          /\ \A u \in URLs :
                Count(mentions, LAMBDA m : m.url = u) =
                    IF \E i \in 1..Len(results) : \E m \in Range(results[i]) : m.url = u
                    THEN 1 ELSE 0
          /\ (~saveErr /\ ~loadErr) =>
                \A k \in 1..Len(mentions) :
                    Count(file.recs, LAMBDA r : r.url = mentions[k].url) = 1

\* two scrapers returned one URL under two titles, in a run later than the
\* one that stored the URL
EndToEndDedupWitness ==
    /\ pc = "searched"
    /\ ~saveErr
    /\ ~loadErr
    /\ Len(results) = 2
    /\ \E a \in Range(results[1]), b \in Range(results[2]) :
          /\ a.url = b.url
          /\ a.title # b.title
          /\ Len(mentions) = 1
          /\ \E j \in 1..Len(file.recs) :
                /\ file.recs[j].url = a.url
                /\ FromIsoFormat(file.recs[j].date_found) < now

\* C10: at the end of a run that enriched its mentions, the records the
\* statistics and the recent mentions are read from carry the sentiment and
\* the relevance_score the enrichment set.
EnrichmentVisible ==
    (pc = "done" /\ enriched /\ ~saveErr /\ ~loadErr) =>
        \A i \in 1..Len(mentions), j \in 1..Len(recent) :
            recent[j].url = mentions[i].url =>
                /\ recent[j].sentiment = mentions[i].sentiment
                /\ recent[j].relevance_score = mentions[i].relevance_score
                /\ mentions[i].sentiment \in DOMAIN stats.sentiment_breakdown


\* C11: whatever the list handed to enrich_mentions and whatever each analysis
\* call does (succeeds, raises, answers with something malformed), the
\* enrichment has no raising exit, and the list it builds and returns holds
\* the mentions of the input, as many and in the same order (same URLs).
EnricherBatchContract ==
    /\ pc \in {"searched", "enrich", "enriched"}
    /\ pc = "enrich" =>
          /\ Len(analyzed) = ei - 1
          /\ \A i \in 1..Len(analyzed) : analyzed[i].url = returned[i].url
    /\ pc = "enriched" =>
          /\ Len(mentions) = Len(returned)
          /\ \A i \in 1..Len(mentions) : mentions[i].url = returned[i].url

\* a list of two mentions came back from an enrichment in which the sentiment
\* call of the last one raised and its relevance call answered no number
EnricherBatchContractWitness ==
    /\ pc = "enriched"
    /\ Len(returned) = 2
    /\ Len(mentions) = 2
    /\ Len(calls) = 4
    /\ calls[1].kind = "raise"
    /\ calls[2].kind = "text"
    /\ returned[1].url # returned[2].url

\* the four calls of the last analysis all raised
AllCallsRaised ==
    /\ Len(calls) = 4
    /\ \A k \in 1..4 : calls[k].kind = "raise"

\* C12: a mention whose four analysis calls all raised has, after its
\* analysis, the sentiment and the relevance_score it had before, whatever
\* they were.
FailedAnalysisKeepsMention ==
    AllCallsRaised =>
        /\ mentions[ei - 1].sentiment = returned[ei - 1].sentiment
        /\ mentions[ei - 1].relevance_score = returned[ei - 1].relevance_score


\* the stored mentions of the term the statistics were asked for
TermMentions ==
    SelectSeq(file.recs, LAMBDA r : Lower(r.search_term) = Lower(term))

\* the 7 calendar days ending today
LastDays == {DayOf(now - i * 24) : i \in 0..(WindowDays - 1)}

\* C13: the mentions_by_day that calculate_stats returns has exactly 7
\* entries, zero-count days included, whatever the store holds, also when
\* it holds no mention of the term.
HistogramShape ==
    pc = "done" => Cardinality(DOMAIN stats.mentions_by_day) = WindowDays

\* C14: mentions_last_7_days counts exactly the term's mentions with
\* date_found >= now - 7 * 24 h, total_mentions counts them all, every mention
\* of the term dated on one of the 7 calendar days ending today is counted in
\* that day's histogram entry, every entry counts exactly the term's mentions
\* of its calendar day, and no entry exists for any other day (so an
\* 8-day-old mention is in no bucket).
TwoSevenDaySemantics ==
    (pc = "done" /\ ~loadErr) =>
        /\ stats.total_mentions = Len(TermMentions)
        /\ stats.mentions_last_7_days =
              Count(TermMentions,
                    LAMBDA r : FromIsoFormat(r.date_found) >= now - 7 * 24)
        /\ DOMAIN stats.mentions_by_day \subseteq LastDays
        /\ \A d \in DOMAIN stats.mentions_by_day :
              stats.mentions_by_day[d] =
                  Count(TermMentions,
                        LAMBDA r : DayOf(FromIsoFormat(r.date_found)) = d)
        /\ \A k \in 1..Len(TermMentions) :
              LET d == DayOf(FromIsoFormat(TermMentions[k].date_found))
              IN d \in LastDays => (/\ d \in DOMAIN stats.mentions_by_day
                                    /\ stats.mentions_by_day[d] >= 1)

\* the term has a mention dated now, one 6 days ago and one 8 days ago: 2 in
\* the last 7 days, 3 in total, one each in today's and the oldest bucket
TwoSevenDaySemanticsWitness ==
    /\ pc = "done"
    /\ ~loadErr
    /\ {FromIsoFormat(TermMentions[k].date_found) : k \in 1..Len(TermMentions)}
          = {now, now - 6 * 24, now - 8 * 24}
    /\ stats.total_mentions = 3
    /\ stats.mentions_last_7_days = 2
    /\ stats.mentions_by_day[DayOf(now)] = 1
    /\ stats.mentions_by_day[DayOf(now - 6 * 24)] = 1
    /\ DayOf(now - 8 * 24) \notin DOMAIN stats.mentions_by_day

\* C15: for a term with no stored mention calculate_stats returns total 0,
\* last-7 0, empty source and sentiment breakdowns and an average relevance
\* of 0.0; no average is ever a division by zero.
StatsZeroState ==
    pc = "done" =>
        /\ stats.avg_relevance_score[2] # 0
        /\ TermMentions = <<>> =>
              /\ stats.total_mentions = 0
              /\ stats.mentions_last_7_days = 0
              /\ stats.sources_breakdown = <<>>
              /\ stats.sentiment_breakdown = <<>>
              /\ stats.avg_relevance_score = <<0, 1>>

\* the statistics of a term with no mention, read from a store that holds
\* mentions of the other term
StatsZeroStateWitness ==
    /\ pc = "done"
    /\ ~loadErr
    /\ file.recs # <<>>
    /\ TermMentions = <<>>
    /\ stats.total_mentions = 0


\* C16: when the answer to the relevance prompt is a number r,
\* _calculate_relevance returns min(1, max(0, r)) (1.7 gives 1.0, -0.3 gives
\* 0.0); when the answer is no number or the call fails it returns 0.5; its
\* result is always within [0, 1].
RelevanceClamping ==
    Len(calls) = 4 =>
        /\ calls[2].kind = "number" =>
              analysis.relevance_score = Min(10, Max(0, calls[2].value))
        /\ calls[2].kind \in {"raise", "text"} => analysis.relevance_score = 5
        /\ analysis.relevance_score \in 0..10

\* the relevance call of the last analysis answered 1.7
RelevanceClampingWitness ==
    /\ Len(calls) = 4
    /\ calls[2].kind = "number"
    /\ calls[2].value = 17
    /\ analysis.relevance_score = 10
    /\ mentions[ei - 1].relevance_score = 10

\* C17: when the answer to the sentiment prompt does not parse and contains
\* "negative", _get_sentiment gives "negative" with confidence 0.5; when it
\* does not parse and contains no polarity word, "neutral" with confidence 0.5.
SentimentFallback ==
    (Len(calls) = 4 /\ calls[1].kind = "text") =>
        /\ "negative" \in calls[1].words =>
              /\ analysis.sentiment = "negative"
              /\ analysis.sentiment_confidence = 5
        /\ calls[1].words = {} =>
              /\ analysis.sentiment = "neutral"
              /\ analysis.sentiment_confidence = 5

\* C19: whatever the analysis answered, also well-formed JSON whose
\* 'sentiment' is some other string, every mention's sentiment is one of
\* positive, negative and neutral.
SentimentDomain ==
    \A i \in 1..Len(mentions) :
        mentions[i].sentiment \in {"positive", "negative", "neutral"}


\* C20: search_mentions returns exactly one mention per URL, its fields those
\* of the item of the scraper that returned the URL last in registration
\* order (the last such item of that scraper), and the URLs returned are the
\* union of the URLs of all scrapers.
InMemoryLastWins ==
    pc = "searched" =>
        /\ {mentions[k].url : k \in 1..Len(mentions)} =
              UNION {{m.url : m \in Range(results[i])} : i \in 1..Len(results)}
        /\ \A k \in 1..Len(mentions) :
              LET u == mentions[k].url
                  has(i) == \E m \in Range(results[i]) : m.url = u
                  a == CHOOSE i \in 1..Len(results) :
                          has(i) /\ \A j \in (i + 1)..Len(results) : ~has(j)
                  p == CHOOSE j \in 1..Len(results[a]) :
                          /\ results[a][j].url = u
                          /\ \A q \in (j + 1)..Len(results[a]) :
                                results[a][q].url # u
              IN /\ mentions[k] = results[a][p]
                 /\ Count(mentions, LAMBDA m : m.url = u) = 1

\* both scrapers returned one URL, and the mention returned is the second
\* scraper's
InMemoryLastWinsWitness ==
    /\ pc = "searched"
    /\ Len(results) = 2
    /\ Len(mentions) = 1
    /\ \E x \in Range(results[1]), y \in Range(results[2]) :
          /\ x.url = y.url
          /\ x.source # y.source
          /\ mentions[1].source = Scrapers[2]
          /\ mentions[1].title = y.title


\* the stored entries that are records with a url and a date_found
ValidRecords ==
    SelectSeq(file.recs, LAMBDA r : Has(r, "url") /\ Has(r, "date_found"))

\* C18: on a store that holds one malformed entry (a record without url or
\* without date_found, or an entry that is no object) among valid records,
\* and with no I/O fault, save_mentions does not fail, the statistics and the
\* recent mentions are computed, and they are those of the valid records of
\* the term, the malformed entry being skipped.
LoadTolerance ==
    /\ ~saveErr
    /\ pc # "failed"
    /\ pc = "done" =>
          /\ stats.total_mentions =
                Count(ValidRecords,
                      LAMBDA r : Lower(r.search_term) = Lower(term))
          /\ \A j \in 1..Len(recent) : recent[j] \in Range(ValidRecords)


\* C21: search_mentions keys its merge by the URL without trailing
\* whitespace: no two mentions it returns, and no two stored records, have
\* URLs that differ only by trailing whitespace.
UrlNormalization ==
    /\ pc = "searched" =>
          \A i, j \in 1..Len(mentions) :
              RStrip(mentions[i].url) = RStrip(mentions[j].url) => i = j
    /\ \A i, j \in 1..Len(file.recs) :
          RStrip(file.recs[i].url) = RStrip(file.recs[j].url) => i = j

\* C22: enrich_mentions changes only sentiment and relevance_score of each
\* mention: source, title, url, snippet, date_found and search_term are as
\* before, and no attribute is added, for every URL, linkedin.com URLs
\* included.
EnrichmentFrame ==
    pc = "enriched" =>
        /\ Len(mentions) = Len(returned)
        /\ \A i \in 1..Len(mentions) :
              [mentions[i] EXCEPT !.sentiment = returned[i].sentiment,
                                  !.relevance_score = returned[i].relevance_score]
                  = returned[i]


\* the sum of the counts of a breakdown
RECURSIVE SumCounts(_)
SumCounts(f) ==
    IF DOMAIN f = {} THEN 0
    ELSE LET k == CHOOSE x \in DOMAIN f : TRUE
         IN f[k] + SumCounts([x \in DOMAIN f \ {k} |-> f[x]])

\* C23: for a term with stored mentions, sources_breakdown and
\* sentiment_breakdown count all of the term's stored mentions, whatever
\* their age, so each sums to total_mentions, and avg_relevance_score is the
\* mean relevance_score of all of them.
UnwindowedBreakdowns ==
    (pc = "done" /\ ~loadErr /\ TermMentions # <<>>) =>
        /\ DOMAIN stats.sources_breakdown =
              {TermMentions[k].source : k \in 1..Len(TermMentions)}
        /\ \A src \in DOMAIN stats.sources_breakdown :
              stats.sources_breakdown[src] =
                  Count(TermMentions, LAMBDA r : r.source = src)
        /\ DOMAIN stats.sentiment_breakdown =
              {TermMentions[k].sentiment : k \in 1..Len(TermMentions)}
        /\ \A sn \in DOMAIN stats.sentiment_breakdown :
              stats.sentiment_breakdown[sn] =
                  Count(TermMentions, LAMBDA r : r.sentiment = sn)
        /\ SumCounts(stats.sources_breakdown) = stats.total_mentions
        /\ SumCounts(stats.sentiment_breakdown) = stats.total_mentions
        /\ stats.avg_relevance_score =
              <<SumRelevance(TermMentions), Len(TermMentions)>>

\* the term has a neutral DuckDuckGo mention of 8 days ago and a positive
\* Travily mention of today: one in the last 7 days, both in the breakdowns
\* and in the average
UnwindowedBreakdownsWitness ==
    /\ pc = "done"
    /\ ~loadErr
    /\ stats.total_mentions = 2
    /\ stats.mentions_last_7_days = 1
    /\ \E k \in 1..Len(TermMentions) :
          /\ FromIsoFormat(TermMentions[k].date_found) = now - 8 * 24
          /\ TermMentions[k].source = "DuckDuckGo"
    /\ stats.sources_breakdown["DuckDuckGo"] = 1
    /\ stats.sources_breakdown["Travily"] = 1
    /\ stats.sentiment_breakdown["neutral"] = 1
    /\ stats.sentiment_breakdown["positive"] = 1
    /\ stats.avg_relevance_score = <<14, 2>>


\* C24: the URLs already stored are looked up across all search terms.  When
\* a search of term B returns a URL that is stored under another term, the
\* save (without storage fault) adds no record for it and leaves the stored
\* record, its search_term included, as it was; get_mentions_for_term(B) does
\* not hold the URL, and the statistics and recent mentions of B read at the
\* end of the run do not include it.
CrossTermShadowing ==
    /\ [][(pc = "loop" /\ pc' = "searched" /\ ~loadErr' /\ ~saveErr') =>
            \A j \in 1..Len(file.recs) :
                (/\ Lower(file.recs[j].search_term) # Lower(term)
                 /\ \E k \in 1..Len(mentions') :
                       mentions'[k].url = file.recs[j].url)
                => /\ file'.recs[j] = file.recs[j]
                   /\ Count(file'.recs, LAMBDA r : r.url = file.recs[j].url) = 1
                   /\ \A m \in Range(get_mentions_for_term(file', "ok", term)) :
                         m.url # file.recs[j].url]_vars
    /\ [](( pc = "done" /\ ~loadErr /\ ~saveErr) =>
            \A k \in 1..Len(returned) :
                (\E j \in 1..Len(file.recs) :
                    /\ file.recs[j].url = returned[k].url
                    /\ Lower(file.recs[j].search_term) # Lower(term))
                => /\ \A i \in 1..Len(recent) : recent[i].url # returned[k].url
                   /\ stats.total_mentions =
                         Count(file.recs,
                               LAMBDA r : /\ Lower(r.search_term) = Lower(term)
                                          /\ r.url # returned[k].url))

\* a search of one term returned a URL that is stored under the other term,
\* and the statistics of the searched term count no mention
CrossTermShadowingWitness ==
    /\ pc = "done"
    /\ ~loadErr
    /\ ~saveErr
    /\ Len(returned) >= 1
    /\ \E j \in 1..Len(file.recs) :
          /\ file.recs[j].url = returned[1].url
          /\ Lower(file.recs[j].search_term) # Lower(term)
    /\ stats.total_mentions = 0
    /\ recent = <<>>


\* the URLs of a list of mentions or of records
UrlsOf(ms) == {ms[i].url : i \in 1..Len(ms)}

\* C25: save_mentions loads and then writes, without a lock.  When the calls
\* are serialized, every mention of every batch is stored once the calls have
\* returned; when both calls load before either writes, the store is what the
\* later write made of its own load, and every URL of the other call's batch
\* that the later call neither loaded nor carried is missing from the store.
SingleWriterDependence ==
    (\A w \in Writers : wpc[w] = "done") =>
        /\ ~interleaved =>
              \A w \in Writers : UrlsOf(wbatch[w]) \subseteq UrlsOf(file.recs)
        /\ interleaved =>
              \E w \in Writers :
                 /\ file.recs = merge_mentions(wloaded[w], wbatch[w])
                 /\ \A o \in Writers \ {w} :
                       (UrlsOf(wbatch[o]) \ (UrlsOf(wloaded[w]) \cup UrlsOf(wbatch[w])))
                           \cap UrlsOf(file.recs) = {}

\* both calls have returned, each was handed one mention of a URL of its
\* own, both loaded before either wrote, and the store holds only one of
\* the two URLs
SingleWriterDependenceWitness ==
    /\ \A w \in Writers : wpc[w] = "done"
    /\ interleaved
    /\ Len(wbatch[1]) = 1
    /\ Len(wbatch[2]) = 1
    /\ wbatch[1][1].url # wbatch[2][1].url
    /\ Cardinality(UrlsOf(file.recs)) = 1


\* C26: load_mentions turns a failed read or parse into an empty list, so a
\* save_mentions whose load fails and whose write succeeds writes the batch
\* alone: the file then holds the records of the batch and none of the
\* records it held before.
LoadFailureEmptiesStore ==
    /\ \A rd \in ReadOutcomes :
          LoadFails(file, rd) =>
              /\ load_mentions(file, rd) = <<>>
              /\ \A batch \in Batches :
                    save_mentions(file, batch, rd, "ok") =
                        [st |-> "valid", recs |-> Map(to_dict, batch)]
    /\ (pc = "idle" /\ loadErr /\ ~saveErr) =>
          /\ file.st = "valid"
          /\ dropped \cap UrlsOf(file.recs) = {}

\* the last save_mentions failed to load a store that held a URL, wrote its
\* batch, and that URL is no longer stored
LoadFailureEmptiesStoreWitness ==
    /\ pc = "idle"
    /\ loadErr
    /\ ~saveErr
    /\ file.st = "valid"
    /\ file.recs # <<>>
    /\ dropped # {}

====
